---------------------------- MODULE Spec2Model ----------------------------
(***************************************************************************)
(* Model of src/pdf_splitting.py: class S3InputObject.                     *)
(*                                                                         *)
(* Strings are sequences of one-character strings, so that split, join and *)
(* strip act on them character by character as Python's str methods do.    *)
(* Bucket names are never taken apart by the code and stay TLA+ strings.   *)
(***************************************************************************)
EXTENDS Integers, Sequences, FiniteSets, TLC

(***************************************************************************)
(* Bounds of the model.                                                    *)
(***************************************************************************)
\* longest prefix / subpath / suffix handed to get_output_path on its own
MaxLen == 2
\* most path segments of a message object id
MaxIdSegs == 2
\* most pages of a PDF document
MaxPages == 2
\* most split_upload_pages calls made on one object
MaxCalls == 2
\* most _lazy_download(refresh=True) calls made on one object
MaxRefresh == 1
\* longest text of a page given to the classifier
MaxText == 6
\* most images embedded in a page given to the classifier
MaxImages == 2

(***************************************************************************)
(* Python values.                                                          *)
(***************************************************************************)
\* Python's None, where a string is expected: no character is "None"
None == <<"None">>

SLASH == "/"
DOT == "."

\* the literal 'pages' of line 87
PAGES == <<"p", "a", "g", "e", "s">>

\* the literal 'metadata.json' of line 72
METADATA_JSON == <<"m", "e", "t", "a", "d", "a", "t", "a", ".", "j", "s", "o", "n">>

\* the literal 'pages/images/' of the f-strings of lines 159 and 174
PAGES_IMAGES == <<"p", "a", "g", "e", "s", "/", "i", "m", "a", "g", "e", "s", "/">>

PNG == <<"p", "n", "g">>
JPEG == <<"j", "p", "e", "g">>

_OUTPUT_BUCKET == "tt-assessment-bucket"
_OUTPUT_PREFIX == <<"i", "n", "_", "p", "r", "o", "g", "r", "e", "s", "s">>

APPLICATION_PDF == "application/pdf"

\* what a raised exception leaves in place of a returned value
ValueError == [raised |-> "ValueError"]

(***************************************************************************)
(* Python's str and list methods, as the code uses them.                   *)
(***************************************************************************)
RECURSIVE join(_, _)
\* sep.join(parts)
join(sep, parts) ==
    IF parts = <<>> THEN <<>>
    ELSE IF Len(parts) = 1 THEN parts[1]
    ELSE parts[1] \o <<sep>> \o join(sep, Tail(parts))

RECURSIVE lstrip(_, _)
lstrip(s, c) == IF s # <<>> /\ Head(s) = c THEN lstrip(Tail(s), c) ELSE s

RECURSIVE rstrip(_, _)
rstrip(s, c) ==
    IF s # <<>> /\ s[Len(s)] = c THEN rstrip(SubSeq(s, 1, Len(s) - 1), c) ELSE s

\* s.strip(c): every leading and every trailing c removed
strip(s, c) == rstrip(lstrip(s, c), c)

\* list.index(x) + 1, or 0 where Python raises ValueError
index(xs, x) ==
    IF \E i \in 1..Len(xs) : xs[i] = x
    THEN CHOOSE i \in 1..Len(xs) : xs[i] = x /\ \A k \in 1..(i - 1) : xs[k] # x
    ELSE 0

RECURSIVE split(_, _)
\* s.split(c): always at least one part
split(s, c) ==
    LET i == index(s, c)
    IN  IF i = 0 THEN <<s>>
        ELSE <<SubSeq(s, 1, i - 1)>> \o split(SubSeq(s, i + 1, Len(s)), c)

DIGITS == <<"0", "1", "2", "3", "4", "5", "6", "7", "8", "9">>

RECURSIVE str(_)
\* str(n) of a natural number, as an f-string formats page.number
str(n) == IF n < 10 THEN <<DIGITS[n + 1]>>
          ELSE str(n \div 10) \o <<DIGITS[(n % 10) + 1]>>

(***************************************************************************)
(* The output path scheme.                                                 *)
(***************************************************************************)
\* the filter of line 108: s is not None and s != ''
kept(s) == s # None /\ s # <<>>

\* get_output_path with lstrip('/') in place of strip('/')
get_output_path_lstrip(output_bucket, prefix, subpath, suffix) ==
    [S3Bucket |-> output_bucket,
     S3ObjectName |-> lstrip(join(SLASH, SelectSeq(<<prefix, subpath, suffix>>, kept)), SLASH)]

\* classmethod get_output_path
get_output_path(output_bucket, prefix, subpath, suffix) ==
    [S3Bucket |-> output_bucket,
     S3ObjectName |-> strip(join(SLASH, SelectSeq(<<prefix, subpath, suffix>>, kept)), SLASH)]

\* get_output_path_from_page_image_path cutting at the last 'pages' segment
get_output_path_from_last_pages(s3_page_image_location, suffix) ==
    LET loc_parts == split(s3_page_image_location.S3ObjectName, SLASH)
        at == IF index(loc_parts, PAGES) = 0 THEN 0
              ELSE CHOOSE i \in 1..Len(loc_parts) :
                       loc_parts[i] = PAGES /\ \A k \in (i + 1)..Len(loc_parts) : loc_parts[k] # PAGES
    IN  IF at = 0 THEN ValueError
        ELSE LET base_path == join(SLASH, SubSeq(loc_parts, 1, at - 1))
             IN  get_output_path(s3_page_image_location.S3Bucket, base_path, None, suffix)

\* classmethod get_output_path_from_page_image_path
get_output_path_from_page_image_path(s3_page_image_location, suffix) ==
    LET loc_parts == split(s3_page_image_location.S3ObjectName, SLASH)
        at == index(loc_parts, PAGES)
    IN  IF at = 0 THEN ValueError
        ELSE LET base_path == join(SLASH, SubSeq(loc_parts, 1, at - 1))
             IN  get_output_path(s3_page_image_location.S3Bucket, base_path, None, suffix)


\* instance method _get_output_path of the object me
_get_output_path(me, prefix, suffix) ==
    get_output_path(me._output_bucket, prefix, me._message_object_id, suffix)

\* the f-strings of lines 159 and 174: f'pages/images/{number}.{image_ext}'
page_suffix(number, image_ext) == PAGES_IMAGES \o number \o <<DOT>> \o image_ext

(***************************************************************************)
(* Documents, pages and bytes.                                             *)
(*                                                                         *)
(* A bytes value is [fmt, data]: a PDF's data is its sequence of pages, an *)
(* image's data names its pixels and encoding.  A page is [text, images],  *)
(* images being the page's embedded images [xref, ext] in get_images order.*)
(***************************************************************************)
ALNUM == {"a", "b", "c", "d", "e", "f", "g", "h", "i", "j", "k", "l", "m",
          "n", "o", "p", "q", "r", "s", "t", "u", "v", "w", "x", "y", "z",
          "A", "B", "C", "D", "E", "F", "G", "H", "I", "J", "K", "L", "M",
          "N", "O", "P", "Q", "R", "S", "T", "U", "V", "W", "X", "Y", "Z",
          "0", "1", "2", "3", "4", "5", "6", "7", "8", "9"}

is_alnum(c) == c \in ALNUM

\* re.sub('[\W_]+', '', text)
re_sub_nonword(text) == SelectSeq(text, is_alnum)

\* the classifier with the text threshold one character lower
page_type_threshold(page) ==
    IF Len(re_sub_nonword(page.text)) >= 5 \/ Len(page.images) # 1
    THEN "other" ELSE "single_image"

\* the conditional expression of lines 145-146
page_type(page) ==
    IF Len(re_sub_nonword(page.text)) > 5 \/ Len(page.images) # 1
    THEN "other" ELSE "single_image"

\* page.get_pixmap(matrix=_MAT).pil_tobytes('png')
get_pixmap_png(page) == [fmt |-> "image", data |-> <<"rendered", page>>]

\* pdf_file.extract_image(xref): {"image": ..., "ext": ...}
extract_image(img) ==
    [image |-> [fmt |-> "image", data |-> <<"embedded", img.xref>>], ext |-> img.ext]

\* every page rendered, a page of a single image too
image_bytes_of_rasterized(page) == get_pixmap_png(page)

\* lines 148-157: the bytes and the extension of a page
image_bytes_of(page) ==
    IF page_type(page) = "other" THEN get_pixmap_png(page)
    ELSE extract_image(page.images[1]).image

image_ext_of(page) ==
    IF page_type(page) = "other" THEN PNG
    ELSE extract_image(page.images[1]).ext

\* Image.open(BytesIO(b)): a decoded image, or an error on bytes that are no image
Image_open(b) == IF b.fmt = "image" THEN [decoded |-> b.data] ELSE [raised |-> "UnidentifiedImageError"]

\* json.dumps(d)
json_dumps(d) == [fmt |-> "json", data |-> d]

\* d[k] = v on a dict
dict_set(d, k, v) == [x \in DOMAIN d \cup {k} |-> IF x = k THEN v ELSE d[x]]

PHOTO_PAGE == [text |-> <<>>, images |-> <<[xref |-> "x1", ext |-> JPEG]>>]
TEXT_PAGE == [text |-> <<"P", "a", "g", "e", " ", "o", "n", "e", ".">>, images |-> <<>>]

PageKinds == {PHOTO_PAGE, TEXT_PAGE}

RECURSIVE SeqsUpTo(_, _)
\* the sequences over S of length at most n
SeqsUpTo(S, n) ==
    IF n = 0 THEN {<<>>}
    ELSE LET shorter == SeqsUpTo(S, n - 1)
         IN  shorter \cup {s \o <<x>> : s \in shorter, x \in S}

PdfBodies == {[fmt |-> "pdf", data |-> ps] : ps \in SeqsUpTo(PageKinds, MaxPages)}

\* a page with no text and no image
BLANK_PAGE == [text |-> <<>>, images |-> <<>>]

\* the pages the classifier is tried on: every text of letters and underscores
\* up to MaxText characters, with up to MaxImages embedded images
ClassifierTexts == SeqsUpTo({"a", "_"}, MaxText)
ClassifierImages ==
    SeqsUpTo({[xref |-> "x1", ext |-> JPEG], [xref |-> "x2", ext |-> PNG]}, MaxImages)
ClassifierPages == {[text |-> t, images |-> i] : t \in ClassifierTexts, i \in ClassifierImages}

\* PDFs of one page each, and one of a photo page, a text page and a blank page
PageSourceObjects ==
    {[ContentType |-> APPLICATION_PDF, Body |-> [fmt |-> "pdf", data |-> <<p>>]] :
        p \in ClassifierPages}
    \cup {[ContentType |-> APPLICATION_PDF,
            Body |-> [fmt |-> "pdf", data |-> <<PHOTO_PAGE, TEXT_PAGE, BLANK_PAGE>>]]}
ImageBody == [fmt |-> "image", data |-> <<"source">>]
OtherImageBody == [fmt |-> "image", data |-> <<"rewritten">>]

ContentTypes == {APPLICATION_PDF, "image/png"}

\* the stored source objects a splitter may be pointed at: PDFs stored as PDFs
\* and an image stored as an image (other_writer makes the mismatches)
SourceObjects ==
    {[ContentType |-> APPLICATION_PDF, Body |-> b] : b \in PdfBodies}
        \cup {[ContentType |-> "image/png", Body |-> ImageBody]}

\* the keys of the source objects
SourceKeys == {<<"d", ".", "p", "n", "g">>, <<"d">>, <<"i", "/", "d">>,
               <<"a", ".", "b", "/", "c">>}

\* a PDF stored as a PDF and an image stored as an image
PlainSourceObjects ==
    {[ContentType |-> APPLICATION_PDF, Body |-> [fmt |-> "pdf", data |-> <<PHOTO_PAGE, TEXT_PAGE>>]],
     [ContentType |-> "image/png", Body |-> ImageBody]}

\* the message object ids: up to MaxIdSegs segments joined by '/', or None
IdSegments == {<<>>, <<"x">>, PAGES}
MessageIds ==
    {None} \cup {join(SLASH, segs) : segs \in SeqsUpTo(IdSegments, MaxIdSegs) \ {<<>>}}

(***************************************************************************)
(* State.                                                                  *)
(***************************************************************************)
Jobs == {1, 2}

\* self._bytes_obj = None, where bytes are expected
NO_BYTES == [fmt |-> "None", data |-> <<>>]
NO_LOCATION == [S3Bucket |-> "", S3ObjectName |-> <<>>]

VARIABLES
    pc,             \* [Jobs -> where each S3InputObject's caller stands]
    self,           \* [Jobs -> the fields of the S3InputObject]
    frame,          \* [Jobs -> the locals of the running split_upload_pages call]
    result,         \* [Jobs -> what the last split_upload_pages call gave its caller]
    log,            \* [Jobs -> the requests and hook calls of the running or last call]
    count,          \* [Jobs -> how many requests of each kind the object has made]
    s3_source,      \* [Jobs -> the stored object at the job's s3_document_file]
    s3_output,      \* the objects of the output buckets: a set of [Bucket, Key, Body]
    calls_left,     \* [Jobs -> the split_upload_pages calls the caller still makes]
    refresh_left,   \* [Jobs -> the _lazy_download(refresh=True) calls still made]
    writes_left,    \* the writes other clients still make to the source objects
    args,           \* the arguments of a class method call made on its own
    ret             \* what that call returned

vars == <<pc, self, frame, result, log, count, s3_source, s3_output,
          calls_left, refresh_left, writes_left, args, ret>>

job_vars == <<pc, self, frame, result, log, count, s3_source, s3_output,
              calls_left, refresh_left, writes_left>>

\* one entry of log
Event(op, ok, number, loc, body) ==
    [op |-> op, ok |-> ok, number |-> number, loc |-> loc, body |-> body]

NO_COUNT == [head_object |-> 0, get |-> 0, fetched |-> 0, set_page_count |-> 0,
             put_object |-> 0, persisted |-> 0]

\* the counts c after events: requests made, gets answered, page counts set,
\* metadata writes done
tally(c, events) ==
    [k \in DOMAIN c |->
        c[k] + Cardinality({i \in 1..Len(events) :
                               IF k = "persisted"
                               THEN events[i].op = "put_object" /\ events[i].ok
                               ELSE IF k = "fetched"
                               THEN events[i].op = "get" /\ events[i].ok
                               ELSE events[i].op = k})]

\* log and count of job j after events, the log starting from base
logged(j, base, events) ==
    /\ log' = [log EXCEPT ![j] = base \o events]
    /\ count' = [count EXCEPT ![j] = tally(@, events)]

\* boto3 put_object / upload_fileobj on the output storage: the last write wins
s3_put(store, bucket, key, body) ==
    {o \in store : ~(o.Bucket = bucket /\ o.Key = key)}
        \cup {[Bucket |-> bucket, Key |-> key, Body |-> body]}

NO_FRAME == [page_post_process |-> FALSE, pages |-> <<>>, pdf_file |-> <<>>,
             page |-> 0, page_type |-> "", image_bytes |-> NO_BYTES, image_ext |-> <<>>,
             page_file |-> NO_LOCATION]

NEW_SELF(doc_key, message_object_id) ==
    [_s3_document_file |-> [S3Bucket |-> _OUTPUT_BUCKET, S3ObjectName |-> doc_key],
     _bytes_obj |-> NO_BYTES,
     _message_object_id |-> message_object_id,
     _output_bucket |-> _OUTPUT_BUCKET,
     _metadata |-> <<>>,
     _is_pdf |-> FALSE]

(***************************************************************************)
(* __init__ (lines 39-49): two head_object requests, one for the metadata  *)
(* and one for _is_pdf.                                                    *)
(***************************************************************************)
init_metadata(j) ==
    /\ pc[j] = "init_metadata"
    /\ self' = [self EXCEPT ![j]._metadata =
                    [content_type |-> s3_source[j].ContentType,
                     document_location |-> self[j]._s3_document_file,
                     message_object_id |-> self[j]._message_object_id]]
    /\ logged(j, log[j], <<Event("head_object", TRUE, 0, NO_LOCATION, NO_BYTES)>>)
    /\ pc' = [pc EXCEPT ![j] = "init_is_pdf"]
    /\ UNCHANGED <<frame, result, s3_source, s3_output, calls_left, refresh_left,
                   writes_left, args, ret>>

init_is_pdf(j) ==
    /\ pc[j] = "init_is_pdf"
    /\ self' = [self EXCEPT ![j]._is_pdf = (s3_source[j].ContentType = APPLICATION_PDF)]
    /\ logged(j, log[j], <<Event("head_object", TRUE, 0, NO_LOCATION, NO_BYTES)>>)
    /\ pc' = [pc EXCEPT ![j] = "idle"]
    /\ UNCHANGED <<frame, result, s3_source, s3_output, calls_left, refresh_left,
                   writes_left, args, ret>>

(***************************************************************************)
(* Another client of the storage service rewrites the source object.  The  *)
(* object reads it only in __init__ and in _lazy_download, both entered    *)
(* from the places below: a write made while a call runs is seen by the    *)
(* next read exactly as a write made when the call has ended.              *)
(***************************************************************************)
other_writer(j) ==
    /\ pc[j] \in {"init_metadata", "init_is_pdf", "idle"}
    /\ writes_left > 0
    /\ \E ct \in ContentTypes, b \in {s3_source[j].Body, OtherImageBody} :
          /\ [ContentType |-> ct, Body |-> b] # s3_source[j]
          /\ s3_source' = [s3_source EXCEPT ![j] = [ContentType |-> ct, Body |-> b]]
    /\ writes_left' = writes_left - 1
    /\ UNCHANGED <<pc, self, frame, result, log, count, s3_output, calls_left,
                   refresh_left, args, ret>>

(***************************************************************************)
(* How a call of split_upload_pages ends.                                  *)
(***************************************************************************)
NO_RESULT == [status |-> "none", error |-> "", pages |-> <<>>]

\* the pages made so far handed to the caller on an error
raise_with_pages(j, error, base, events) ==
    /\ pc' = [pc EXCEPT ![j] = "idle"]
    /\ result' = [result EXCEPT ![j] =
                     [status |-> "raised", error |-> error, pages |-> frame[j].pages]]
    /\ frame' = [frame EXCEPT ![j] = NO_FRAME]
    /\ logged(j, base, events \o <<Event("raise", FALSE, 0, NO_LOCATION, NO_BYTES)>>)

\* an exception leaves the method: the caller gets no value, the locals are gone
raise(j, error, base, events) ==
    /\ pc' = [pc EXCEPT ![j] = "idle"]
    /\ result' = [result EXCEPT ![j] = [status |-> "raised", error |-> error, pages |-> <<>>]]
    /\ frame' = [frame EXCEPT ![j] = NO_FRAME]
    /\ logged(j, base, events \o <<Event("raise", FALSE, 0, NO_LOCATION, NO_BYTES)>>)

\* line 183: return pages
return(j, pages, base, events) ==
    /\ pc' = [pc EXCEPT ![j] = "idle"]
    /\ result' = [result EXCEPT ![j] = [status |-> "returned", error |-> "", pages |-> pages]]
    /\ frame' = [frame EXCEPT ![j] = NO_FRAME]
    /\ logged(j, base, events \o <<Event("return", TRUE, 0, NO_LOCATION, NO_BYTES)>>)

\* a step of the method that stays inside it: its caller has no result yet
continue(j, at, locals, base, events) ==
    /\ pc' = [pc EXCEPT ![j] = at]
    /\ result' = [result EXCEPT ![j] = NO_RESULT]
    /\ frame' = [frame EXCEPT ![j] = locals]
    /\ logged(j, base, events)

\* a Page that gives the source's location as the page's
Page_at_source(s3_document_file, number, image_obj, image_ext, s3_page_file, post_processing_result) ==
    [s3_document_file |-> s3_document_file, number |-> number, image_obj |-> image_obj,
     image_ext |-> image_ext, s3_page_file |-> s3_document_file,
     post_processing_result |-> post_processing_result]

\* the namedtuple Page of lines 26-27
Page(s3_document_file, number, image_obj, image_ext, s3_page_file, post_processing_result) ==
    [s3_document_file |-> s3_document_file, number |-> number, image_obj |-> image_obj,
     image_ext |-> image_ext, s3_page_file |-> s3_page_file,
     post_processing_result |-> post_processing_result]

\* what the hook returns for a location; post = None when there is no hook
hook_result(loc) == [from_hook |-> TRUE, location |-> loc]
NO_POST == [from_hook |-> FALSE, location |-> NO_LOCATION]

(***************************************************************************)
(* _lazy_download (lines 51-60).                                           *)
(***************************************************************************)
\* a get issued on every call, cached bytes or not
downloads_always(me, refresh) == TRUE

\* whether the call issues a get
downloads(me, refresh) == refresh \/ me._bytes_obj = NO_BYTES

\* a get answered with the stored object's bytes, and a get that failed
get_event(stored) == Event("get", TRUE, 0, NO_LOCATION, stored.Body)
get_failed_event == Event("get", FALSE, 0, NO_LOCATION, NO_BYTES)

\* the object after _lazy_download(refresh), the get answering with stored
_lazy_download(me, refresh, stored) ==
    IF downloads(me, refresh) THEN [me EXCEPT !._bytes_obj = stored.Body] ELSE me

\* the caller refreshes the cached bytes between two calls
lazy_download_refresh(j, ok) ==
    /\ pc[j] = "idle"
    /\ refresh_left[j] > 0
    /\ refresh_left' = [refresh_left EXCEPT ![j] = @ - 1]
    /\ IF ok
       THEN /\ self' = [self EXCEPT ![j] = _lazy_download(@, TRUE, s3_source[j])]
            /\ logged(j, log[j], <<get_event(s3_source[j])>>)
       ELSE /\ logged(j, log[j], <<get_failed_event>>)
            /\ UNCHANGED self
    /\ UNCHANGED <<pc, frame, result, s3_source, s3_output, calls_left, writes_left,
                   args, ret>>

(***************************************************************************)
(* split_upload_pages, lines 137-142 and 171: the download, the decoding   *)
(* and the page count.                                                     *)
(***************************************************************************)
call_event(hook) ==
    Event(IF hook THEN "call_with_hook" ELSE "call_without_hook", TRUE, 0, NO_LOCATION, NO_BYTES)

set_page_count_event(n) == Event("set_page_count", TRUE, n, NO_LOCATION, NO_BYTES)

split_upload_pages(j, hook, get_ok) ==
    /\ pc[j] = "idle"
    /\ calls_left[j] > 0
    /\ calls_left' = [calls_left EXCEPT ![j] = @ - 1]
    /\ LET me == _lazy_download(self[j], FALSE, s3_source[j])
           called == <<call_event(hook)>>
           got == IF downloads(self[j], FALSE) THEN <<get_event(s3_source[j])>> ELSE <<>>
           locals == [NO_FRAME EXCEPT !.page_post_process = hook]
       IN  IF downloads(self[j], FALSE) /\ ~get_ok
           THEN /\ raise(j, "StorageError", <<>>, called \o <<get_failed_event>>)
                /\ UNCHANGED self
           ELSE IF me._is_pdf
           THEN IF me._bytes_obj.fmt # "pdf"
                THEN /\ raise(j, "DecodeError", <<>>, called \o got)
                     /\ self' = [self EXCEPT ![j] = me]
                ELSE LET pdf_file == me._bytes_obj.data
                         page_count == Len(pdf_file)
                     IN  /\ self' = [self EXCEPT ![j] =
                                [me EXCEPT !._metadata = dict_set(@, "page_count", page_count)]]
                         /\ continue(j, "save_metadata",
                                     [locals EXCEPT !.pdf_file = pdf_file], <<>>,
                                     called \o got \o <<set_page_count_event(page_count)>>)
           ELSE /\ self' = [self EXCEPT ![j] =
                       [me EXCEPT !._metadata = dict_set(@, "page_count", 1)]]
                /\ continue(j, "save_metadata", locals, <<>>,
                            called \o got \o <<set_page_count_event(1)>>)
    /\ UNCHANGED <<s3_source, s3_output, refresh_left, writes_left, args, ret>>

(***************************************************************************)
(* _save_metadata (lines 62-72), as called at lines 143 and 172.           *)
(***************************************************************************)
metadata_location(me) ==
    LET output_path == _get_output_path(me, _OUTPUT_PREFIX, <<>>)
    IN  [S3Bucket |-> output_path.S3Bucket,
         S3ObjectName |-> join(SLASH, <<output_path.S3ObjectName, METADATA_JSON>>)]

\* _save_metadata that writes nothing (the write left for later)
_save_metadata_skipped(j, ok) ==
    /\ pc[j] = "save_metadata"
    /\ IF self[j]._is_pdf /\ frame[j].pdf_file = <<>>
       THEN return(j, frame[j].pages, log[j], <<>>)
       ELSE continue(j, IF self[j]._is_pdf THEN "upload_page" ELSE "upload_standalone",
                     frame[j], log[j], <<>>)
    /\ UNCHANGED <<self, s3_source, s3_output, calls_left, refresh_left, writes_left,
                   args, ret>>

_save_metadata(j, ok) ==
    /\ pc[j] = "save_metadata"
    /\ LET me == self[j]
           at == metadata_location(me)
           body == json_dumps(me._metadata)
           put == Event("put_object", ok, 0, at, body)
       IN  IF ~ok
           THEN /\ raise(j, "StorageError", log[j], <<put>>)
                /\ UNCHANGED s3_output
           ELSE /\ s3_output' = s3_put(s3_output, at.S3Bucket, at.S3ObjectName, body)
                /\ IF me._is_pdf /\ frame[j].pdf_file = <<>>
                   THEN return(j, frame[j].pages, log[j], <<put>>)
                   ELSE continue(j, IF me._is_pdf THEN "upload_page" ELSE "upload_standalone",
                                 frame[j], log[j], <<put>>)
    /\ UNCHANGED <<self, s3_source, calls_left, refresh_left, writes_left, args, ret>>

(***************************************************************************)
(* split_upload_pages, the loop over the pages of a PDF (lines 144-168).   *)
(***************************************************************************)
\* upload_page writing the metadata again after the page
upload_page_saving(j, ok) ==
    /\ pc[j] = "upload_page"
    /\ LET me == self[j]
           number == frame[j].page
           page == frame[j].pdf_file[number + 1]
           page_file == _get_output_path(me, _OUTPUT_PREFIX,
                                         page_suffix(str(number), image_ext_of(page)))
           upload == Event("upload_fileobj", ok, number, page_file, image_bytes_of(page))
           put == Event("put_object", ok, 0, metadata_location(me), json_dumps(me._metadata))
       IN  IF ~ok
           THEN /\ raise(j, "StorageError", log[j], <<upload>>)
                /\ UNCHANGED s3_output
           ELSE /\ s3_output' = s3_put(s3_put(s3_output, page_file.S3Bucket,
                                              page_file.S3ObjectName, image_bytes_of(page)),
                                       put.loc.S3Bucket, put.loc.S3ObjectName, put.body)
                /\ continue(j, "post_page",
                            [frame[j] EXCEPT !.page_type = page_type(page),
                                             !.image_bytes = image_bytes_of(page),
                                             !.image_ext = image_ext_of(page),
                                             !.page_file = page_file],
                            log[j], <<upload, put>>)
    /\ UNCHANGED <<self, s3_source, calls_left, refresh_left, writes_left, args, ret>>

\* lines 145-162: classify, render or extract, name and upload the page
upload_page(j, ok) ==
    /\ pc[j] = "upload_page"
    /\ LET me == self[j]
           number == frame[j].page
           page == frame[j].pdf_file[number + 1]
           image_bytes == image_bytes_of(page)
           image_ext == image_ext_of(page)
           page_file == _get_output_path(me, _OUTPUT_PREFIX, page_suffix(str(number), image_ext))
           upload == Event("upload_fileobj", ok, number, page_file, image_bytes)
       IN  IF ~ok
           THEN /\ raise(j, "StorageError", log[j], <<upload>>)
                /\ UNCHANGED s3_output
           ELSE /\ s3_output' = s3_put(s3_output, page_file.S3Bucket,
                                       page_file.S3ObjectName, image_bytes)
                /\ continue(j, "post_page",
                            [frame[j] EXCEPT !.page_type = page_type(page),
                                             !.image_bytes = image_bytes,
                                             !.image_ext = image_ext,
                                             !.page_file = page_file],
                            log[j], <<upload>>)
    /\ UNCHANGED <<self, s3_source, calls_left, refresh_left, writes_left, args, ret>>

hook_event(ok, number, loc) == Event("page_post_process", ok, number, loc, NO_BYTES)
append_event(number) == Event("append", TRUE, number, NO_LOCATION, NO_BYTES)

\* the hook called for the first page only
hook_calls_first_page(f, number, hook_ok) ==
    IF f.page_post_process /\ number = 0
    THEN <<Event("page_post_process", hook_ok, number, f.page_file, NO_BYTES)>> ELSE <<>>

\* lines 164-165 and 179-180: the hook is called, if there is one, with page_file
hook_calls(f, number, hook_ok) ==
    IF f.page_post_process THEN <<hook_event(hook_ok, number, f.page_file)>> ELSE <<>>

\* the loop ending one page early
more_pages_off_by_one(pdf_file, number) == number + 2 < Len(pdf_file)

\* line 144: whether the for loop has another page after page `number`
more_pages(pdf_file, number) == number + 1 < Len(pdf_file)

\* post_page leaving the Page of every page but the last to be appended later
post_page_deferring(j, hook_ok) ==
    /\ pc[j] = "post_page"
    /\ LET me == self[j]
           f == frame[j]
           number == f.page
           hooked == hook_calls(f, number, hook_ok)
           post == IF f.page_post_process THEN hook_result(f.page_file) ELSE NO_POST
           pages == Append(f.pages,
                           Page(me._s3_document_file, number, Image_open(f.image_bytes),
                                f.image_ext, f.page_file, post))
       IN  IF f.page_post_process /\ ~hook_ok
           THEN raise(j, "HookError", log[j], hooked)
           ELSE IF more_pages(f.pdf_file, number)
           THEN continue(j, "upload_page", [f EXCEPT !.pages = pages, !.page = number + 1],
                         log[j], hooked)
           ELSE return(j, pages, log[j], hooked \o <<append_event(number)>>)
    /\ UNCHANGED <<self, s3_source, s3_output, calls_left, refresh_left, writes_left,
                   args, ret>>

\* lines 163-168 and 183: the hook, the Page, the next page or the return
post_page(j, hook_ok) ==
    /\ pc[j] = "post_page"
    /\ LET me == self[j]
           f == frame[j]
           number == f.page
           hooked == hook_calls(f, number, hook_ok)
           post == IF f.page_post_process THEN hook_result(f.page_file) ELSE NO_POST
           pages == Append(f.pages,
                           Page(me._s3_document_file, number, Image_open(f.image_bytes),
                                f.image_ext, f.page_file, post))
       IN  IF f.page_post_process /\ ~hook_ok
           THEN raise(j, "HookError", log[j], hooked)
           ELSE IF more_pages(f.pdf_file, number)
           THEN continue(j, "upload_page", [f EXCEPT !.pages = pages, !.page = number + 1],
                         log[j], hooked \o <<append_event(number)>>)
           ELSE return(j, pages, log[j], hooked \o <<append_event(number)>>)
    /\ UNCHANGED <<self, s3_source, s3_output, calls_left, refresh_left, writes_left,
                   args, ret>>

(***************************************************************************)
(* split_upload_pages, a source that is no PDF (lines 173-183).            *)
(***************************************************************************)
\* line 173: self._s3_document_file['S3ObjectName'].split('.')[-1]
key_suffix(key) == LET parts == split(key, DOT) IN parts[Len(parts)]

\* the source decoded and encoded again before the upload
standalone_bytes_reencoded(me) == [fmt |-> "image", data |-> <<"reencoded", me._bytes_obj.data>>]

\* line 175: the bytes handed to upload_fileobj
standalone_bytes(me) == me._bytes_obj

\* lines 173-177
upload_standalone(j, ok) ==
    /\ pc[j] = "upload_standalone"
    /\ LET me == self[j]
           image_ext == key_suffix(me._s3_document_file.S3ObjectName)
           page_file == _get_output_path(me, _OUTPUT_PREFIX, page_suffix(<<"0">>, image_ext))
           image_bytes == standalone_bytes(me)
           upload == Event("upload_fileobj", ok, 0, page_file, image_bytes)
       IN  IF ~ok
           THEN /\ raise(j, "StorageError", log[j], <<upload>>)
                /\ UNCHANGED s3_output
           ELSE /\ s3_output' = s3_put(s3_output, page_file.S3Bucket,
                                       page_file.S3ObjectName, image_bytes)
                /\ continue(j, "post_standalone",
                            [frame[j] EXCEPT !.image_bytes = image_bytes,
                                             !.image_ext = image_ext,
                                             !.page_file = page_file],
                            log[j], <<upload>>)
    /\ UNCHANGED <<self, s3_source, calls_left, refresh_left, writes_left, args, ret>>

\* lines 178-183
post_standalone(j, hook_ok) ==
    /\ pc[j] = "post_standalone"
    /\ LET me == self[j]
           f == frame[j]
           hooked == hook_calls(f, 0, hook_ok)
           post == IF f.page_post_process THEN hook_result(f.page_file) ELSE NO_POST
           image_obj == Image_open(me._bytes_obj)
           pages == Append(f.pages,
                           Page(me._s3_document_file, 0, image_obj, f.image_ext,
                                f.page_file, post))
       IN  IF f.page_post_process /\ ~hook_ok
           THEN raise(j, "HookError", log[j], hooked)
           ELSE IF "raised" \in DOMAIN image_obj
           THEN raise(j, image_obj.raised, log[j], hooked)
           ELSE return(j, pages, log[j], hooked \o <<append_event(0)>>)
    /\ UNCHANGED <<self, s3_source, s3_output, calls_left, refresh_left, writes_left,
                   args, ret>>

(***************************************************************************)
(* The class methods called on their own, on arguments of the caller's.    *)
(***************************************************************************)
NO_ARGS == [fn |-> "none", output_bucket |-> "", prefix |-> None, subpath |-> None,
            suffix |-> None, location |-> NO_LOCATION]
NO_RETURN == [status |-> "pending", value |-> NO_LOCATION]

Buckets == {_OUTPUT_BUCKET, "other-bucket"}

\* the strings of at most MaxLen characters, and None
PathChars == {SLASH, "x"}
PathStrings == SeqsUpTo(PathChars, MaxLen) \cup {None}

\* keys of at most MaxLen + 2 segments
KeySegments == {<<>>, <<"x">>, PAGES}
LocationKeys == {join(SLASH, segs) : segs \in SeqsUpTo(KeySegments, MaxLen + 2) \ {<<>>}}

PathArgs ==
    {[fn |-> "get_output_path", output_bucket |-> b, prefix |-> p, subpath |-> q,
      suffix |-> r, location |-> NO_LOCATION] :
        b \in Buckets, p \in PathStrings, q \in PathStrings, r \in PathStrings}
    \cup
    {[fn |-> "get_output_path_from_page_image_path", output_bucket |-> "", prefix |-> None,
      subpath |-> None, suffix |-> r,
      location |-> [S3Bucket |-> b, S3ObjectName |-> k]] :
        b \in Buckets, k \in LocationKeys, r \in {<<>>, <<"x">>}}

returned(value) ==
    IF "raised" \in DOMAIN value THEN [status |-> "raised", value |-> NO_LOCATION]
    ELSE [status |-> "returned", value |-> value]

call_get_output_path ==
    /\ args.fn = "get_output_path"
    /\ ret.status = "pending"
    /\ ret' = returned(get_output_path(args.output_bucket, args.prefix, args.subpath, args.suffix))
    /\ UNCHANGED <<args, job_vars>>

call_get_output_path_from_page_image_path ==
    /\ args.fn = "get_output_path_from_page_image_path"
    /\ ret.status = "pending"
    /\ ret' = returned(get_output_path_from_page_image_path(args.location, args.suffix))
    /\ UNCHANGED <<args, job_vars>>

(***************************************************************************)
(* Specifications.                                                         *)
(***************************************************************************)
\* the objects `present` under construction, lines 39-42 done
InitJobs(present, keys, ids, sources, calls, refreshes, writes) ==
    /\ pc = [j \in Jobs |-> IF j \in present THEN "init_metadata" ELSE "absent"]
    /\ \E made \in [present -> {NEW_SELF(k, id) : k \in keys, id \in ids}] :
          self = [j \in Jobs |-> IF j \in present THEN made[j] ELSE NEW_SELF(<<>>, None)]
    /\ frame = [j \in Jobs |-> NO_FRAME]
    /\ result = [j \in Jobs |-> NO_RESULT]
    /\ log = [j \in Jobs |-> <<>>]
    /\ count = [j \in Jobs |-> NO_COUNT]
    /\ \E stored \in [present -> sources] :
          s3_source = [j \in Jobs |-> IF j \in present THEN stored[j]
                                      ELSE [ContentType |-> "image/png", Body |-> ImageBody]]
    /\ s3_output = {}
    /\ calls_left = [j \in Jobs |-> IF j \in present THEN calls ELSE 0]
    /\ refresh_left = [j \in Jobs |-> IF j \in present THEN refreshes ELSE 0]
    /\ writes_left = writes

\* __init__
Construct(j) ==
    \/ init_metadata(j)
    \/ init_is_pdf(j)

\* one step of a split_upload_pages call
Call(j) ==
    \/ \E hook \in BOOLEAN, get_ok \in BOOLEAN : split_upload_pages(j, hook, get_ok)
    \/ \E ok \in BOOLEAN : _save_metadata(j, ok)
    \/ \E ok \in BOOLEAN : upload_page(j, ok)
    \/ \E hook_ok \in BOOLEAN : post_page(j, hook_ok)
    \/ \E ok \in BOOLEAN : upload_standalone(j, ok)
    \/ \E hook_ok \in BOOLEAN : post_standalone(j, hook_ok)

Next ==
    \E j \in Jobs :
        \/ Construct(j)
        \/ Call(j)
        \/ other_writer(j)
        \/ \E ok \in BOOLEAN : lazy_download_refresh(j, ok)

\* one S3InputObject, called up to MaxCalls times
Init ==
    /\ InitJobs({1}, {<<"d", ".", "p", "n", "g">>}, {<<"x">>}, SourceObjects, MaxCalls,
                MaxRefresh, 1)
    /\ args = NO_ARGS
    /\ ret = NO_RETURN

Spec == Init /\ [][Next]_vars

\* two S3InputObjects with distinct message object ids, each called once
InitTwoJobs ==
    /\ InitJobs(Jobs, {<<"d", ".", "p", "n", "g">>}, MessageIds, PlainSourceObjects, 1, 0, 0)
    /\ self[1]._message_object_id # self[2]._message_object_id
    /\ args = NO_ARGS
    /\ ret = NO_RETURN

\* no refresh, and nobody rewrites the sources
NextTwoJobs == \E j \in Jobs : Construct(j) \/ Call(j)

SpecTwoJobs == InitTwoJobs /\ [][NextTwoJobs]_vars

\* one S3InputObject with any message object id and source key, called once
InitOneCall ==
    /\ InitJobs({1}, SourceKeys, MessageIds, PlainSourceObjects, 1, 0, 0)
    /\ args = NO_ARGS
    /\ ret = NO_RETURN

SpecOneCall == InitOneCall /\ [][NextTwoJobs]_vars

\* one S3InputObject on a PDF whose pages the classifier has to tell apart
InitPages ==
    /\ InitJobs({1}, {<<"d", ".", "p", "n", "g">>}, {<<"x">>}, PageSourceObjects, 1, 0, 0)
    /\ args = NO_ARGS
    /\ ret = NO_RETURN

\* the steps of a split_upload_pages call on a PDF
CallPdf(j) ==
    \/ \E hook \in BOOLEAN, get_ok \in BOOLEAN : split_upload_pages(j, hook, get_ok)
    \/ \E ok \in BOOLEAN : _save_metadata(j, ok)
    \/ \E ok \in BOOLEAN : upload_page(j, ok)
    \/ \E hook_ok \in BOOLEAN : post_page(j, hook_ok)

NextPages == \E j \in Jobs : Construct(j) \/ CallPdf(j)

SpecPages == InitPages /\ [][NextPages]_vars

\* the class methods on their own
InitPath ==
    /\ InitJobs({}, {}, {}, {}, 0, 0, 0)
    /\ args \in PathArgs
    /\ ret = NO_RETURN

NextPath == call_get_output_path \/ call_get_output_path_from_page_image_path

SpecPath == InitPath /\ [][NextPath]_vars

(***************************************************************************)
(* Properties.                                                             *)
(***************************************************************************)
\* the entries of job j's log
Events(j) == {log[j][i] : i \in 1..Len(log[j])}

\* the metadata and page-image writes job j has completed in its call
Writes(j) == {e \in Events(j) : e.op \in {"put_object", "upload_fileobj"} /\ e.ok}

\* the call of job j has just returned / just raised: nothing was done since
JustReturned(j) == pc[j] = "idle" /\ log[j] # <<>> /\ log[j][Len(log[j])].op = "return"
JustRaised(j) == pc[j] = "idle" /\ log[j] # <<>> /\ log[j][Len(log[j])].op = "raise"

\* the '/'-separated segments of a key
Segments(key) == split(key, SLASH)

\* C1: every page image location that split_upload_pages produces for a job,
\* whatever its message object id, is mapped by
\* get_output_path_from_page_image_path to get_output_path(same bucket,
\* default prefix, that id, ''), the job's base output path.
C1_PagePathInverts ==
    \A j \in Jobs : \A e \in Events(j) :
        e.op = "upload_fileobj" /\ e.ok =>
            get_output_path_from_page_image_path(e.loc, <<>>)
                = get_output_path(e.loc.S3Bucket, _OUTPUT_PREFIX,
                                  self[j]._message_object_id, <<>>)

\* the message object id of job j is given and has a character other than '/'
HasProperId(j) ==
    /\ self[j]._message_object_id # None
    /\ strip(self[j]._message_object_id, SLASH) # <<>>

\* C8: two jobs with distinct message object ids, the same output bucket and
\* the default prefix never write the same destination key, in any
\* interleaving of their writes.  Stated here for the ids that are given and
\* are not made of '/' alone, which the claim covers with all others.
C8_DistinctIdsDistinctKeys ==
    self[1]._message_object_id # self[2]._message_object_id
        /\ HasProperId(1) /\ HasProperId(2) =>
            \A e1 \in Writes(1), e2 \in Writes(2) : e1.loc # e2.loc

\* the segments of the key strictly before its first "pages" segment, joined by '/'
BeforeFirstPages(key) ==
    LET segs == Segments(key)
        first == CHOOSE i \in 1..Len(segs) :
                     segs[i] = PAGES /\ \A k \in 1..(i - 1) : segs[k] # PAGES
    IN  join(SLASH, SubSeq(segs, 1, first - 1))

HasPagesSegment(key) == \E i \in 1..Len(Segments(key)) : Segments(key)[i] = PAGES

\* a call of get_output_path_from_page_image_path(location) has ended
InvertCallEnded ==
    /\ args.fn = "get_output_path_from_page_image_path"
    /\ args.suffix = <<>>
    /\ ret.status # "pending"

\* C9 as stated: without a "pages" segment the call fails; with one it returns
\* the segments before the first "pages" segment joined by '/', in the same
\* bucket.
C9_Original ==
    InvertCallEnded =>
        LET key == args.location.S3ObjectName
        IN  IF HasPagesSegment(key)
            THEN /\ ret.status = "returned"
                 /\ ret.value.S3Bucket = args.location.S3Bucket
                 /\ ret.value.S3ObjectName = BeforeFirstPages(key)
            ELSE ret.status = "raised"

\* C9 as amended: without a "pages" segment the call fails; with one it returns,
\* in the same bucket, the segments before the first "pages" segment joined by
\* '/' with every leading and trailing '/' removed.
C9_InvertPagePath ==
    InvertCallEnded =>
        LET key == args.location.S3ObjectName
        IN  IF HasPagesSegment(key)
            THEN /\ ret.status = "returned"
                 /\ ret.value.S3Bucket = args.location.S3Bucket
                 /\ \E a, b \in 0..Len(BeforeFirstPages(key)) :
                       /\ BeforeFirstPages(key)
                            = [i \in 1..a |-> SLASH] \o ret.value.S3ObjectName
                                \o [i \in 1..b |-> SLASH]
                       /\ ret.value.S3ObjectName # <<>> =>
                            /\ Head(ret.value.S3ObjectName) # SLASH
                            /\ ret.value.S3ObjectName[Len(ret.value.S3ObjectName)] # SLASH
            ELSE ret.status = "raised"

\* C9's case: a key with two "pages" segments whose leading part ends in '/'
C9_Witness ==
    /\ InvertCallEnded
    /\ ret.status = "returned"
    /\ Cardinality({i \in 1..Len(Segments(args.location.S3ObjectName)) :
                       Segments(args.location.S3ObjectName)[i] = PAGES}) = 2
    /\ ret.value.S3ObjectName # <<>>
    /\ ret.value.S3ObjectName # BeforeFirstPages(args.location.S3ObjectName)

\* a call of get_output_path has ended
BuildCallEnded == args.fn = "get_output_path" /\ ret.status # "pending"

\* the components of [prefix, subpath, suffix] that are neither None nor empty
Components ==
    LET given == <<args.prefix, args.subpath, args.suffix>>
        RECURSIVE pick(_)
        pick(i) == IF i > 3 THEN <<>>
                   ELSE IF given[i] = None \/ given[i] = <<>> THEN pick(i + 1)
                   ELSE <<given[i]>> \o pick(i + 1)
    IN  pick(1)

\* C10: get_output_path returns the bucket verbatim, and as key the components
\* that are neither None nor empty, in their order, joined by '/', with the
\* leading and trailing '/' removed: the key never starts or ends with '/'.
C10_BuildPath ==
    BuildCallEnded =>
        LET joined == join(SLASH, Components)
            key == ret.value.S3ObjectName
        IN  /\ ret.status = "returned"
            /\ ret.value.S3Bucket = args.output_bucket
            /\ \E a, b \in 0..Len(joined) :
                  joined = [i \in 1..a |-> SLASH] \o key \o [i \in 1..b |-> SLASH]
            /\ key # <<>> => Head(key) # SLASH /\ key[Len(key)] # SLASH

\* C10's case: a component is None, another is kept, and '/' were removed at
\* both ends
C10_Witness ==
    /\ BuildCallEnded
    /\ args.subpath = None
    /\ Len(Components) = 2
    /\ ret.value.S3ObjectName # <<>>
    /\ Head(join(SLASH, Components)) = SLASH
    /\ join(SLASH, Components)[Len(join(SLASH, Components))] = SLASH

\* the places in job j's log of the entries with this op
At(j, op) == {i \in 1..Len(log[j]) : log[j][i].op = op}

\* the call of job j was made with a hook
WithHook(j) == log[j] # <<>> /\ log[j][1].op = "call_with_hook"

\* C2: in every call of split_upload_pages, of a PDF or of a standalone
\* source, the metadata record is written, carrying the final page_count,
\* before the first page image is uploaded: no page image is on storage
\* unless the metadata is.
C2_MetadataBeforePages ==
    \A j \in Jobs :
        /\ \A i \in At(j, "upload_fileobj") :
              \E k \in 1..(i - 1) :
                  /\ log[j][k].op = "put_object" /\ log[j][k].ok
                  /\ "page_count" \in DOMAIN log[j][k].body.data
                  /\ log[j][k].body.data.page_count > log[j][i].number
        /\ JustReturned(j) =>
              \E k \in At(j, "put_object") :
                  log[j][k].body.data.page_count = Len(result[j].pages)
        /\ pc[j] # "absent" /\ (\E o \in s3_output : o.Body.fmt = "image") =>
              \E o \in s3_output :
                  /\ o.Bucket = metadata_location(self[j]).S3Bucket
                  /\ o.Key = metadata_location(self[j]).S3ObjectName
                  /\ o.Body.fmt = "json"

\* C2's case: the second page of a PDF has been uploaded
C2_Witness ==
    \E j \in Jobs : \E i \in At(j, "upload_fileobj") :
        log[j][i].ok /\ log[j][i].number = 1

\* C3: a call on a PDF of N pages that returns, returns exactly N Pages, their
\* numbers 0..N-1 in increasing order.
C3_OnePagePerPdfPage ==
    \A j \in Jobs :
        JustReturned(j) /\ self[j]._is_pdf =>
            LET N == Len(self[j]._bytes_obj.data)
            IN  /\ Len(result[j].pages) = N
                /\ \A k \in 1..N : result[j].pages[k].number = k - 1

\* C3's case: a call on a PDF of MaxPages pages has returned
C3_Witness ==
    \E j \in Jobs :
        /\ JustReturned(j) /\ self[j]._is_pdf
        /\ Len(self[j]._bytes_obj.data) = MaxPages
        /\ Len(result[j].pages) > 1

\* C4: a supplied hook is called once per page, with the page's destination,
\* right after that page's successful upload and before the next upload; it is
\* not called for a page whose upload failed or has not happened, and there is
\* no hook call in a call made without a hook.
C4_HookAfterEachUpload ==
    \A j \in Jobs :
        /\ \A i \in At(j, "page_post_process") :
              /\ WithHook(j)
              /\ i > 1
              /\ log[j][i - 1].op = "upload_fileobj" /\ log[j][i - 1].ok
              /\ log[j][i - 1].number = log[j][i].number
              /\ log[j][i - 1].loc = log[j][i].loc
        /\ \A i, k \in At(j, "page_post_process") :
              log[j][i].number = log[j][k].number => i = k
        /\ \A i \in At(j, "upload_fileobj") :
              WithHook(j) /\ log[j][i].ok /\ i < Len(log[j]) =>
                  log[j][i + 1].op = "page_post_process"
        /\ JustReturned(j) /\ WithHook(j) =>
              /\ Cardinality(At(j, "page_post_process")) = Len(result[j].pages)
              /\ \A k \in 1..Len(result[j].pages) :
                    result[j].pages[k].post_processing_result
                        = hook_result(result[j].pages[k].s3_page_file)

\* C4's case: a call with a hook on a PDF of two or more pages has returned
C4_Witness ==
    \E j \in Jobs :
        JustReturned(j) /\ WithHook(j) /\ Cardinality(At(j, "page_post_process")) > 1

\* a failed write of job j's log: the metadata write or a page upload
FailedWrites(j) ==
    {i \in 1..Len(log[j]) : log[j][i].op \in {"put_object", "upload_fileobj"} /\ ~log[j][i].ok}

\* C5: a failed metadata write or page upload ends the call there: nothing is
\* uploaded, no hook is called and no write is made after it; the caller gets
\* an error and no pages; the pages uploaded before it stay on storage.
C5_FailureAborts ==
    \A j \in Jobs :
        /\ \A i \in FailedWrites(j) :
              /\ i < Len(log[j]) /\ log[j][i + 1].op = "raise"
              /\ \A k \in (i + 1)..Len(log[j]) :
                    log[j][k].op \notin {"put_object", "upload_fileobj",
                                         "page_post_process", "append", "return"}
              /\ pc[j] = "idle" /\ result[j].status = "raised" /\ result[j].pages = <<>>
        /\ JustRaised(j) => result[j].status = "raised" /\ result[j].pages = <<>>
        /\ \A i \in At(j, "upload_fileobj") :
              log[j][i].ok =>
                  [Bucket |-> log[j][i].loc.S3Bucket, Key |-> log[j][i].loc.S3ObjectName,
                   Body |-> log[j][i].body] \in s3_output

\* C5's case: the upload of the second page failed, the first page is stored
C5_Witness ==
    \E j \in Jobs : \E i \in FailedWrites(j) :
        /\ log[j][i].op = "upload_fileobj" /\ log[j][i].number = 1
        /\ JustRaised(j)
        /\ \E o \in s3_output : o.Body.fmt = "image"

\* C6: a call on a standalone source that returns, returns one Page, numbered
\* 0, and has made one upload, of exactly the bytes fetched from the source.
C6_StandalonePassThrough ==
    \A j \in Jobs :
        JustReturned(j) /\ ~self[j]._is_pdf =>
            /\ Len(result[j].pages) = 1
            /\ result[j].pages[1].number = 0
            /\ Cardinality(At(j, "upload_fileobj")) = 1
            /\ \A i \in At(j, "upload_fileobj") :
                  /\ log[j][i].ok
                  /\ log[j][i].body = self[j]._bytes_obj
                  /\ \A g \in At(j, "get") : log[j][i].body = log[j][g].body
                  /\ [Bucket |-> log[j][i].loc.S3Bucket, Key |-> log[j][i].loc.S3ObjectName,
                      Body |-> self[j]._bytes_obj] \in s3_output

\* C6's case: a call that fetched a standalone source has returned
C6_Witness ==
    \E j \in Jobs : JustReturned(j) /\ ~self[j]._is_pdf /\ At(j, "get") # {}

\* C7 as stated: over all the calls made on one object, page_count is set once
\* and the record is written once, and never again.
C7_Original ==
    \A j \in Jobs : count[j].set_page_count <= 1 /\ count[j].persisted <= 1

\* C7 as amended: each call of split_upload_pages sets page_count at most once
\* and writes the record at most once, after setting it, and does not set it
\* after the write; a call that returns has done each exactly once.  Over the
\* calls made on one object there are at most as many sets and writes as calls.
C7_OncePerCall ==
    \A j \in Jobs :
        /\ Cardinality(At(j, "set_page_count")) <= 1
        /\ Cardinality(At(j, "put_object")) <= 1
        /\ \A i \in At(j, "put_object") :
              /\ \E k \in At(j, "set_page_count") : k < i
              /\ log[j][i].body = json_dumps(self[j]._metadata)
        /\ JustReturned(j) =>
              /\ Cardinality(At(j, "set_page_count")) = 1
              /\ \E i \in At(j, "put_object") : log[j][i].ok
        /\ pc[j] # "absent" =>
              /\ count[j].set_page_count <= MaxCalls - calls_left[j]
              /\ count[j].put_object <= count[j].set_page_count

\* C7's case: the second call on an object has written the record again
C7_Witness ==
    \E j \in Jobs : count[j].persisted = 2 /\ JustReturned(j)

\* the page of its PDF that job j is working on
CurrentPage(j) == frame[j].pdf_file[frame[j].page + 1]

\* how many characters of the text are letters or digits
AlnumCount(text) == Cardinality({i \in 1..Len(text) : text[i] \in ALNUM})

\* C11: the classifier gives a page one of the two verdicts single_image and
\* other, and gives single_image exactly when the page's text has at most 5
\* letters and digits and the page embeds exactly one image.
C11_Classifier ==
    \A j \in Jobs :
        pc[j] = "post_page" =>
            /\ frame[j].page_type \in {"single_image", "other"}
            /\ frame[j].page_type = "single_image"
                  <=> /\ AlnumCount(CurrentPage(j).text) <= 5
                      /\ Len(CurrentPage(j).images) = 1

\* C11's case: a page of one image whose text is longer than 5 characters and
\* has exactly 5 letters has been classified single_image
C11_Witness ==
    \E j \in Jobs :
        /\ pc[j] = "post_page"
        /\ Len(CurrentPage(j).text) > 5
        /\ AlnumCount(CurrentPage(j).text) = 5
        /\ Len(CurrentPage(j).images) = 1
        /\ frame[j].page_type = "single_image"

\* the split_upload_pages calls and the refreshes made so far on job j's object
CallsMade(j) == IF pc[j] = "absent" THEN 0 ELSE MaxCalls - calls_left[j]
RefreshesMade(j) == IF pc[j] = "absent" THEN 0 ELSE MaxRefresh - refresh_left[j]

\* C12 as stated: the gets an object has issued are at most one, and one more
\* for each refresh.
C12_Original ==
    \A j \in Jobs : count[j].get <= 1 + RefreshesMade(j)

\* what a step does to the gets of job j's object
FetchStep(j) ==
    IF calls_left'[j] < calls_left[j]
    THEN \* a split_upload_pages call: a get exactly when no bytes are cached
         /\ count'[j].get = count[j].get + (IF self[j]._bytes_obj = NO_BYTES THEN 1 ELSE 0)
         /\ self[j]._bytes_obj # NO_BYTES => self'[j]._bytes_obj = self[j]._bytes_obj
    ELSE IF refresh_left'[j] < refresh_left[j]
    THEN \* a refresh: one more get, its answer replacing the cached bytes
         /\ count'[j].get = count[j].get + 1
         /\ IF count'[j].fetched > count[j].fetched
            THEN self'[j]._bytes_obj = s3_source[j].Body
            ELSE self'[j]._bytes_obj = self[j]._bytes_obj
    ELSE /\ count'[j].get = count[j].get
         /\ self'[j]._bytes_obj = self[j]._bytes_obj

\* what holds of the gets of every object at every time
FetchedOnce ==
    \A j \in Jobs :
        /\ count[j].fetched <= 1 + RefreshesMade(j)
        /\ count[j].get <= CallsMade(j) + RefreshesMade(j)
        /\ self[j]._bytes_obj # NO_BYTES <=> count[j].fetched > 0

\* C12 as amended: the split_upload_pages calls made on an object without a
\* refresh have at most one get answered between them; a call issues a get
\* exactly when no bytes are cached, so after a get that failed the next call
\* issues another; cached bytes are served unchanged; each refresh issues
\* exactly one more get and, when it is answered, replaces the cached bytes
\* by the bytes stored then.
C12_FetchOnce == []FetchedOnce /\ [][\A j \in Jobs : FetchStep(j)]_vars

\* C12's case: a call fetched the bytes, a refresh replaced them by bytes
\* written since, and a second call has returned without another get
C12_Witness ==
    \E j \in Jobs :
        /\ JustReturned(j)
        /\ CallsMade(j) = 2 /\ RefreshesMade(j) = 1
        /\ count[j].get = 2 /\ count[j].fetched = 2
        /\ self[j]._bytes_obj = OtherImageBody

\* __init__ has ended for job j's object
Constructed(j) == pc[j] \notin {"absent", "init_metadata", "init_is_pdf"}

\* C13: an object looks the source's content type up with one head request,
\* made at construction, and no more; and _is_pdf, decided at construction,
\* is not changed by any later step, a refresh of the bytes included.
C13_OneLookupOneDecision ==
    /\ [](\A j \in Jobs :
            /\ count[j].head_object <= 1
            /\ Constructed(j) => count[j].head_object = 1)
    /\ [][\A j \in Jobs : Constructed(j) => self'[j]._is_pdf = self[j]._is_pdf]_vars

\* C19: the content_type of an object's metadata record is 'application/pdf'
\* exactly when the object takes the PDF branch, also when another client
\* rewrites the stored object during the construction; so is the content_type
\* of every record written to storage.
C19_ContentTypeAgreesWithBranch ==
    \A j \in Jobs :
        /\ Constructed(j) =>
              (self[j]._metadata.content_type = APPLICATION_PDF <=> self[j]._is_pdf)
        /\ \A i \in At(j, "put_object") :
              log[j][i].body.data.content_type = APPLICATION_PDF <=> self[j]._is_pdf

\* the key of get_output_path(job j's output bucket, default prefix, its id)
BaseKey(j) ==
    get_output_path(self[j]._output_bucket, _OUTPUT_PREFIX,
                    self[j]._message_object_id, None).S3ObjectName

\* C14: a job's metadata record is written to its output bucket at the key
\* get_output_path(output bucket, default prefix, its id) + '/metadata.json',
\* and get_output_path_from_page_image_path gives, for every page image
\* uploaded for the job, the directory of that metadata file.
C14_MetadataAtBasePath ==
    \A j \in Jobs : \A i \in At(j, "put_object") :
        /\ log[j][i].loc.S3Bucket = self[j]._output_bucket
        /\ log[j][i].loc.S3ObjectName = BaseKey(j) \o <<SLASH>> \o METADATA_JSON
        /\ \A u \in At(j, "upload_fileobj") :
              log[j][u].ok =>
                  LET base == get_output_path_from_page_image_path(log[j][u].loc, <<>>)
                  IN  /\ "raised" \notin DOMAIN base
                      /\ base.S3Bucket = log[j][i].loc.S3Bucket
                      /\ base.S3ObjectName \o <<SLASH>> \o METADATA_JSON
                            = log[j][i].loc.S3ObjectName

\* C15: in a call the page images are uploaded one at a time in the order of
\* their page numbers 0, 1, 2, ...: the upload of a page comes only after the
\* upload of the page before it has succeeded, the hook, if there is one, has
\* been called for that page and has returned, and that page's Page has been
\* appended, in this order.
C15_PagesInOrder ==
    \A j \in Jobs :
        /\ \A i, k \in At(j, "upload_fileobj") :
              i < k => log[j][i].number < log[j][k].number
        /\ \A k \in At(j, "upload_fileobj") :
              LET n == log[j][k].number
              IN  IF n = 0 THEN \A i \in At(j, "upload_fileobj") : i >= k
                  ELSE \E u \in At(j, "upload_fileobj"), a \in At(j, "append") :
                          /\ u < a /\ a < k
                          /\ log[j][u].ok /\ log[j][u].number = n - 1
                          /\ log[j][a].number = n - 1
                          /\ WithHook(j) =>
                                \E h \in At(j, "page_post_process") :
                                    /\ u < h /\ h < a
                                    /\ log[j][h].ok /\ log[j][h].number = n - 1
        /\ pc[j] = "upload_page" =>
              /\ Len(frame[j].pages) = frame[j].page
              /\ Cardinality(At(j, "upload_fileobj")) = frame[j].page
              /\ Cardinality(At(j, "append")) = frame[j].page

\* C15's case: in a call with a hook the upload of the second page of a PDF
\* has been made and the call is at that page's hook
C15_Witness ==
    \E j \in Jobs :
        /\ pc[j] = "post_page" /\ WithHook(j) /\ frame[j].page = 1
        /\ Cardinality(At(j, "upload_fileobj")) = 2

\* the last request of job j's log is the successful upload of the page at hand
PageUploaded(j) ==
    /\ pc[j] = "post_page"
    /\ log[j][Len(log[j])].op = "upload_fileobj"
    /\ log[j][Len(log[j])].ok

\* the text after the last '.' of a key
AfterLastDot(key) ==
    LET dots == {i \in 1..Len(key) : key[i] = DOT}
        last == CHOOSE i \in dots : \A k \in dots : k <= i
    IN  IF dots = {} THEN key ELSE SubSeq(key, last + 1, Len(key))

\* C16: what is uploaded for a page of a PDF follows the verdict on it: after
\* "other" the rendering of the page with extension 'png', after
\* "single_image" the bytes and the extension of the page's embedded image as
\* they are in the document; a page with no text and no image is rendered as
\* png; and the extension of the destination key is the image_ext of the
\* page's Page.
C16_RenderFollowsVerdict ==
    \A j \in Jobs :
        /\ PageUploaded(j) =>
              LET page == CurrentPage(j)
                  upload == log[j][Len(log[j])]
              IN  /\ frame[j].page_type = "other" =>
                        /\ upload.body = [fmt |-> "image", data |-> <<"rendered", page>>]
                        /\ frame[j].image_ext = PNG
                  /\ frame[j].page_type = "single_image" =>
                        /\ upload.body = [fmt |-> "image",
                                          data |-> <<"embedded", page.images[1].xref>>]
                        /\ frame[j].image_ext = page.images[1].ext
                  /\ page.text = <<>> /\ page.images = <<>> =>
                        /\ upload.body.data[1] = "rendered"
                        /\ frame[j].image_ext = PNG
                  /\ AfterLastDot(upload.loc.S3ObjectName) = frame[j].image_ext
        /\ JustReturned(j) /\ self[j]._is_pdf =>
              \A k \in 1..Len(result[j].pages) :
                  /\ AfterLastDot(result[j].pages[k].s3_page_file.S3ObjectName)
                        = result[j].pages[k].image_ext
                  /\ \E u \in At(j, "upload_fileobj") :
                        /\ log[j][u].number = k - 1
                        /\ log[j][u].loc = result[j].pages[k].s3_page_file
                        /\ AfterLastDot(log[j][u].loc.S3ObjectName)
                              = result[j].pages[k].image_ext

\* C16's case: a call has returned on a PDF of a page with one JPEG image and
\* no text, a page of text and a blank page
C16_Witness ==
    \E j \in Jobs :
        /\ JustReturned(j)
        /\ self[j]._bytes_obj.fmt = "pdf"
        /\ self[j]._bytes_obj.data = <<PHOTO_PAGE, TEXT_PAGE, BLANK_PAGE>>
        /\ Len(result[j].pages) = 3
        /\ result[j].pages[1].image_ext = JPEG
        /\ result[j].pages[2].image_ext = PNG
        /\ result[j].pages[3].image_ext = PNG

\* no segment of job j's message object id is 'pages'
IdWithoutPages(j) ==
    \/ self[j]._message_object_id = None
    \/ ~HasPagesSegment(self[j]._message_object_id)

\* C17: the page image of a standalone source is uploaded at the key
\* prefix/id/pages/images/0.ext, prefix being the default prefix, id the job's
\* id and ext the text after the last '.' of the source key (the whole key
\* when it has no '.');
\* whatever the source key, '0.ext' is the file name of the key, the last of
\* its segments, and get_output_path_from_page_image_path gives the job's base
\* path for it.  Stated here for the jobs whose id is given, is not made of
\* '/' alone and has no 'pages' segment, and for the uploads that succeeded.
C17_StandaloneKey ==
    \A j \in Jobs : \A u \in At(j, "upload_fileobj") :
        Constructed(j) /\ ~self[j]._is_pdf /\ HasProperId(j) /\ IdWithoutPages(j)
            /\ log[j][u].ok =>
            LET key == log[j][u].loc.S3ObjectName
                ext == AfterLastDot(self[j]._s3_document_file.S3ObjectName)
                file == <<"0", DOT>> \o ext
            IN  /\ key = _OUTPUT_PREFIX \o <<SLASH>> \o self[j]._message_object_id
                            \o <<SLASH>> \o PAGES_IMAGES \o file
                /\ \A i \in 1..Len(file) : file[i] # SLASH
                /\ get_output_path_from_page_image_path(log[j][u].loc, <<>>)
                      = [S3Bucket |-> self[j]._output_bucket, S3ObjectName |-> BaseKey(j)]

\* the metadata records on storage at job j's metadata location
PersistedRecords(j) ==
    {o \in s3_output : /\ o.Bucket = metadata_location(self[j]).S3Bucket
                       /\ o.Key = metadata_location(self[j]).S3ObjectName}

\* C18: when a call of split_upload_pages has returned, the page_count of the
\* metadata record on storage is the number of page images the call uploaded
\* and the number of Pages it returned, and the s3_page_file of each returned
\* Page is the bucket and key its page image was uploaded to.
C18_CountsAndLocationsAgree ==
    \A j \in Jobs :
        JustReturned(j) =>
            /\ PersistedRecords(j) # {}
            /\ \A o \in PersistedRecords(j) :
                  /\ o.Body.data.page_count = Cardinality(At(j, "upload_fileobj"))
                  /\ o.Body.data.page_count = Len(result[j].pages)
            /\ \A u \in At(j, "upload_fileobj") : log[j][u].ok
            /\ \A k \in 1..Len(result[j].pages) :
                  \E u \in At(j, "upload_fileobj") :
                      /\ log[j][u].number = result[j].pages[k].number
                      /\ log[j][u].loc = result[j].pages[k].s3_page_file
                      /\ \E o \in s3_output :
                            /\ o.Bucket = result[j].pages[k].s3_page_file.S3Bucket
                            /\ o.Key = result[j].pages[k].s3_page_file.S3ObjectName
                            /\ o.Body = log[j][u].body

\* C18's case: a call has returned two Pages and the record on storage has
\* page_count 2
C18_Witness ==
    \E j \in Jobs :
        /\ JustReturned(j)
        /\ \E o \in PersistedRecords(j) : o.Body.data.page_count = 2
        /\ result[j].pages[1].s3_page_file # result[j].pages[2].s3_page_file

=============================================================================
